---- MODULE Spec2Model ----
(***************************************************************************)
(* A model of the chai plugin chai-have-all-properties: the grouped        *)
(* property assertion `.properties` (hasAllProperties) of                  *)
(* src/lib/propertiesAssertion.ts.                                         *)
(*                                                                         *)
(* One assertion chain is modelled: its flags (object, nested, own, deep,  *)
(* negate, message) are fixed by the chain before the call, and each       *)
(* action is one call of .properties(properties, message) on that chain.   *)
(* The locals of the last call (the three collections, the assert          *)
(* message, the arguments handed to the host's assert) are kept in the     *)
(* state so that properties of a call can be stated over them.             *)
(***************************************************************************)
EXTENDS Integers, Sequences, FiniteSets, TLC

\* Longest expected-names array that is enumerated.
MaxNames == 2

-----------------------------------------------------------------------------
(* JavaScript values.  A value is undefined, a number, or an object; every  *)
(* modelled object value has the same structure and `ref` is its identity,  *)
(* so two objects with different refs are deeply equal but not identical.   *)

Undefined == [type |-> "undefined", num |-> 0, ref |-> 0]
Number(n) == [type |-> "number", num |-> n, ref |-> 0]
Object(r) == [type |-> "object", num |-> 0, ref |-> r]

\* Object values with a structure of their own, as in the target
\* {a: {b: [10, 20]}}: `num` tells the structures of objects apart.
Inner == [type |-> "object", num |-> 1, ref |-> 3]
List  == [type |-> "object", num |-> 2, ref |-> 4]

\* expectedValue === value
StrictEquals(x, y) == x = y

\* A variant that compares objects by identity.
deepEqualByIdentity(x, y) == x = y

\* deepEqual(expectedValue, value) of deep-eql: structure, not identity
deepEqual(x, y) == x.type = y.type /\ x.num = y.num

-----------------------------------------------------------------------------
(* Property names (PropertyNameType, plus one value of a type that is not a *)
(* property name).  `key` is the property key the name denotes once used in *)
(* obj[name]: a number is converted to its decimal string.                  *)

StringName(s) == [type |-> "string", key |-> s]
NumberName    == [type |-> "number", key |-> "1"]
SymbolName    == [type |-> "symbol", key |-> "Symbol(s)"]
BooleanName   == [type |-> "boolean", key |-> "true"]

\* typeof name
typeof(name) == name.type

\* A variant that does not take symbols for names.
PropertyNameTypesWithoutSymbol == {"string", "number"}

PropertyNameTypes == {"string", "number", "symbol"}

ArrayNames == {StringName("a"), StringName("b"), NumberName, SymbolName, BooleanName}

\* Names written in the dot- and bracket-notation of nested mode
PathNames == {StringName("a"), StringName("a.b[1]"), StringName("a.c")}

\* The keys a dictionary of expected values is written with, in the order
\* the literal lists them (the order Object.keys/Object.entries return).
KeyOrder == <<"a", "a.b[1]", "key">>
DictKeys == {"a", "key"}
ExpectedValues == {Undefined, Number(1), Number(2), Object(2)}

\* Dictionaries written with a path: {'a.b[1]': 20}
PathDictKeys == {"a.b[1]", "key"}
PathExpectedValues == {Number(10), Number(20)}

NoDict == [k \in {} |-> Undefined]

\* PropertiesListType<T>: an array of names or a Record of name -> value.
ArrayOf(names) == [kind |-> "array", names |-> names, dict |-> NoDict]
RecordOf(dict) == [kind |-> "record", names |-> <<>>, dict |-> dict]

SeqsUpTo(S, n) == UNION {[1..m -> S] : m \in 0..n}

ArrayInputs ==
  {ArrayOf(s) : s \in SeqsUpTo(ArrayNames, MaxNames) \cup SeqsUpTo(PathNames, MaxNames)}
RecordInputs ==
  {RecordOf(d) : d \in UNION {[K -> ExpectedValues] : K \in SUBSET DictKeys}
                       \cup UNION {[K -> PathExpectedValues] : K \in SUBSET PathDictKeys}}

Messages == {"", "nooo why fail??"}

-----------------------------------------------------------------------------
(* Targets: null, undefined, or an object with own properties and           *)
(* properties inherited from its prototype chain.                           *)

NoProps == [k \in {} |-> Undefined]

Target(t, own, proto) == [type |-> t, own |-> own, proto |-> proto]
Null            == Target("null", NoProps, NoProps)
UndefinedTarget == Target("undefined", NoProps, NoProps)

\* Own properties: a is absent, 1, 5 or an object; key is absent or 1.
OwnChoices ==
  { f \in UNION {[K -> {Number(1), Number(5), Object(1)}] : K \in SUBSET {"a", "key"}} :
      "key" \in DOMAIN f => f["key"] = Number(1) }

\* Object.prototype.b = 2, as in the documentation's example
WithInherited == [k \in {"b"} |-> Number(2)]

\* obj[1] = 1
WithIndex(own) == [k \in DOMAIN own \cup {"1"} |-> IF k = "1" THEN Number(1) ELSE own[k]]

\* {a: {b: [10, 20]}}
nestedObject == Target("object", [k \in {"a"} |-> Inner], NoProps)

Targets == {Null, UndefinedTarget, nestedObject}
             \cup {Target("object", o, NoProps) : o \in OwnChoices}
             \cup {Target("object", WithIndex(o), WithInherited) : o \in OwnChoices}

isNullish(obj) == obj.type \in {"null", "undefined"}

\* Object.prototype.hasOwnProperty.call(obj, propertyName)
hasOwnProperty(obj, name) == name.key \in DOMAIN obj.own

\* utils.hasProperty(obj, name): false on null/undefined, else `name in Object(obj)`
hasProperty(obj, name) ==
  /\ ~isNullish(obj)
  /\ name.key \in (DOMAIN obj.own \cup DOMAIN obj.proto)

\* obj[propertyName]
Get(obj, name) ==
  IF name.key \in DOMAIN obj.own THEN obj.own[name.key]
  ELSE IF name.key \in DOMAIN obj.proto THEN obj.proto[name.key]
  ELSE Undefined

-----------------------------------------------------------------------------
(* The host (chai) primitives the plugin consumes.                          *)

\* The properties of an object value: {b: [10, 20]}, [10, 20], and {c: 3}
\* for the objects that are compared by .deep.
PropsOf(v) ==
  CASE v = Inner -> [k \in {"b"} |-> List]
    [] v = List -> [k \in {"0", "1"} |-> IF k = "0" THEN Number(10) ELSE Number(20)]
    [] v.type = "object" /\ v.num = 0 -> [k \in {"c"} |-> Number(3)]
    [] OTHER -> NoProps

\* A value seen as the object a path goes on from.
ToObject(v) ==
  IF v.type = "object" THEN Target("object", PropsOf(v), NoProps)
  ELSE IF v.type = "undefined" THEN UndefinedTarget
  ELSE Target("primitive", NoProps, NoProps)

\* The segments of a path: dots separate them, [i] is an index.  A name
\* without dot or bracket is its own single segment.
ParsePath(path) ==
  CASE path.key = "a.b[1]" -> <<"a", "b", "1">>
    [] path.key = "a.c" -> <<"a", "c">>
    [] OTHER -> <<path.key>>

\* if (temporaryValue) of the host's walk
Truthy(v) == v.type = "object" \/ (v.type = "number" /\ v.num # 0)

\* The host's walk from a value along the segments left; it stops at a
\* value that is not truthy and answers nothing (null) from there.
RECURSIVE Descend(_, _)
Descend(v, segments) ==
  IF segments = <<>> THEN v
  ELSE IF Truthy(v)
    THEN Descend(Get(ToObject(v), StringName(Head(segments))), Tail(segments))
  ELSE Undefined

\* The value the segments lead to from obj.
PathValue(obj, segments) ==
  IF isNullish(obj) THEN Undefined
  ELSE Descend(Get(obj, StringName(Head(segments))), Tail(segments))

\* utils.getPathInfo(obj, path): exists is hasProperty(parent, last segment)
\* and value the value the path leads to.  The host declares the path a
\* string (index.d.ts widens the declaration, not the host): with a number
\* or a symbol the host either throws a TypeError (hostThrows) or answers as
\* for the key.
getPathInfo(obj, path, hostThrows) ==
  IF typeof(path) # "string" /\ hostThrows
    THEN [threw |-> TRUE, exists |-> FALSE, value |-> Undefined]
    ELSE LET segments == ParsePath(path)
             n        == Len(segments)
             parent   == IF n > 1 THEN ToObject(PathValue(obj, SubSeq(segments, 1, n - 1)))
                         ELSE obj
         IN  [threw  |-> FALSE,
              exists |-> hasProperty(parent, StringName(segments[n])),
              value  |-> PathValue(obj, segments)]

\* this.assert(expr, ...): the host negates expr itself when the negate flag
\* is set, and throws its assertion failure when the result is false.
HostAssert(negate, expr) ==
  IF (IF negate THEN ~expr ELSE expr) THEN "pass" ELSE "AssertionFailure"

-----------------------------------------------------------------------------
(* hasAllProperties, step by step.                                          *)

\* isRecord(data): typeof data === 'object' && 'key' in data.  Arrays and
\* plain objects are both of type 'object'; an array has no property 'key'.
isRecord(data) ==
  /\ data.kind \in {"array", "record"}
  /\ data.kind = "record" /\ "key" \in DOMAIN data.dict

\* Object.keys(properties) / the keys of Object.entries(properties)
ObjectKeys(properties) ==
  SelectSeq(KeyOrder, LAMBDA k : k \in DOMAIN properties.dict)

\* getNameTypes calls properties.map when isRecord answers false: a plain
\* object has no map method, and the call dies with a TypeError.
getNameTypesThrows(properties) ==
  ~isRecord(properties) /\ properties.kind # "array"

\* getNameTypes(properties): the set of typeof over the names
getNameTypes(properties) ==
  IF isRecord(properties)
    THEN {"string" : i \in 1..Len(ObjectKeys(properties))}
    ELSE {typeof(properties.names[i]) : i \in 1..Len(properties.names)}

\* A variant that tests the flag combination before the name types.
ValidateOwnBeforeNames(isNested, isOwn, obj, nameTypes) ==
  IF isNested
    THEN IF isOwn THEN "NestedOwnError"
         ELSE IF \E t \in nameTypes : t # "string" THEN "NestedNamesError"
         ELSE "ok"
    ELSE IF \E t \in nameTypes : t \notin PropertyNameTypes THEN "NameTypeError"
         ELSE IF isNullish(obj) THEN "NullTargetError"
         ELSE "ok"

\* A variant that does not look at the names in nested mode.
ValidateNestedNamesUnchecked(isNested, isOwn, obj, nameTypes) ==
  IF isNested
    THEN IF isOwn THEN "NestedOwnError" ELSE "ok"
    ELSE IF \E t \in nameTypes : t \notin PropertyNameTypes THEN "NameTypeError"
         ELSE IF isNullish(obj) THEN "NullTargetError"
         ELSE "ok"

\* The validation chain of lines 185-212: the error thrown, or "ok".
Validate(isNested, isOwn, obj, nameTypes) ==
  IF isNested
    THEN IF \E t \in nameTypes : t # "string" THEN "NestedNamesError"
         ELSE IF isOwn THEN "NestedOwnError"
         ELSE "ok"
    ELSE IF \E t \in nameTypes : t \notin PropertyNameTypes THEN "NameTypeError"
         ELSE IF isNullish(obj) THEN "NullTargetError"
         ELSE "ok"

\* The text of each validation error, after the flagMessage prefix.
ErrorText(err) ==
  CASE err = "NestedNamesError" ->
         "the arguments to properties must all be strings when using nested syntax"
    [] err = "NestedOwnError" -> "The \"nested\" and \"own\" flags cannot be combined."
    [] err = "NameTypeError" ->
         "the argument to properties must all be strings, numbers, or symbols"
    [] err = "NullTargetError" -> "Target cannot be null or undefined."
    [] OTHER -> ""

\* A variant that puts the message in front of the text as it is.
FlagMessageWithoutSeparator(message) == message

\* flagMessage = flagMessage ? flagMessage + ': ' : ''
FlagMessage(message) == IF message # "" THEN message \o ": " ELSE ""

\* descriptor (lines 220-230)
Descriptor(isDeep, isOwn, isNested, doValueCheck) ==
  (IF isDeep THEN "deep " ELSE "") \o (IF isOwn THEN "own " ELSE "")
    \o (IF isNested THEN "nested " ELSE "")
    \o (IF ~doValueCheck THEN "properties" ELSE "properties/values")

\* A variant in which the collections outlive the call: a name found by an
\* earlier call is still there.
ListsKeptFromEarlierCall ==
  [found |-> <<StringName("b")>>, missing |-> <<>>, mismatched |-> [k \in {} |-> Undefined],
   threw |-> FALSE, resolverCalls |-> 0]

\* foundProperties, missingProperties, valueMismatchedProperties as created
\* at lines 232-234, with the bookkeeping of the loop.
EmptyLists ==
  [found |-> <<>>, missing |-> <<>>, mismatched |-> NoProps,
   threw |-> FALSE, resolverCalls |-> 0]

\* The entries the loops of lines 267-277 hand to
\* addPropertyToAppropriateList: Object.entries of a record, or each name of
\* the array with no expected value (expectedValue is then undefined).
Entries(properties, doValueCheck) ==
  IF doValueCheck
    THEN [i \in 1..Len(ObjectKeys(properties)) |->
            [name  |-> StringName(ObjectKeys(properties)[i]),
             value |-> properties.dict[ObjectKeys(properties)[i]]]]
    ELSE [i \in 1..Len(properties.names) |->
            [name |-> properties.names[i], value |-> Undefined]]

\* valueMismatchedProperties[propertyName] = value
SetProp(m, key, value) ==
  [k \in DOMAIN m \cup {key} |-> IF k = key THEN value ELSE m[k]]

\* A variant that always compares, as if a value had been given.
ExpectedValueNeverOmitted(expectedValue) == FALSE

\* expectedValue === undefined (line 249): no value to compare with
ExpectedValueOmitted(expectedValue) == expectedValue = Undefined

\* foundProperties.push(propertyName)
PushFound(l, propertyName) == [l EXCEPT !.found = Append(@, propertyName)]

\* A variant that forgets the push: the name is recorded nowhere.
MissingDropped(l, propertyName) == l

\* missingProperties.push(propertyName)
PushMissing(l, propertyName) == [l EXCEPT !.missing = Append(@, propertyName)]

\* A variant that looks along the prototype chain with the own flag too.
PropertyPresentOnChain(c, pathInfo, propertyName) ==
  IF c.isNested THEN pathInfo.exists ELSE hasProperty(c.obj, propertyName)

\* A variant that takes a path for the name of one property of the target.
PropertyPresentFlat(c, pathInfo, propertyName) ==
  IF c.isOwn THEN hasOwnProperty(c.obj, propertyName)
  ELSE hasProperty(c.obj, propertyName)

\* hasProperty (lines 239-246): presence under the chain's lookup mode
PropertyPresent(c, pathInfo, propertyName) ==
  IF c.isOwn THEN hasOwnProperty(c.obj, propertyName)
  ELSE IF c.isNested THEN pathInfo.exists
  ELSE hasProperty(c.obj, propertyName)

\* value (lines 252-254): the actual value that is compared
ActualValue(c, pathInfo, propertyName) ==
  IF c.isNested THEN pathInfo.value ELSE Get(c.obj, propertyName)

\* line 256: deep equality with the deep flag, strict equality without
ValuesMatch(c, expectedValue, value) ==
  IF c.isDeep THEN deepEqual(expectedValue, value) ELSE StrictEquals(expectedValue, value)

\* addPropertyToAppropriateList(propertyName, expectedValue), lines 236-265.
\* c is the call's context: obj, isNested, isOwn, isDeep, hostThrows.
addPropertyToAppropriateList(c, l, propertyName, expectedValue) ==
  LET pathInfo == getPathInfo(c.obj, propertyName, c.hostThrows)
      called   == [l EXCEPT !.resolverCalls = @ + 1]
      value    == ActualValue(c, pathInfo, propertyName)
  IN  IF pathInfo.threw THEN [called EXCEPT !.threw = TRUE]
      ELSE IF PropertyPresent(c, pathInfo, propertyName)
        THEN IF ExpectedValueOmitted(expectedValue)
               THEN PushFound(called, propertyName)
             ELSE IF ValuesMatch(c, expectedValue, value)
               THEN PushFound(called, propertyName)
             ELSE [called EXCEPT !.mismatched = SetProp(@, propertyName.key, value)]
      ELSE PushMissing(called, propertyName)

\* The loop of lines 267-277 from entry i on; an exception ends it.
RECURSIVE Classify(_, _, _, _)
Classify(c, entries, i, l) ==
  IF i > Len(entries) \/ l.threw THEN l
  ELSE Classify(c, entries, i + 1,
                addPropertyToAppropriateList(c, l, entries[i].name, entries[i].value))

\* A variant whose non-negated branch forgets the mismatched values.
AssertionPassedIgnoringMismatched(isNegated, l) ==
  IF ~isNegated THEN Len(l.missing) = 0 ELSE Len(l.found) = 0

\* A variant whose negated branch also wants mismatched to be empty.
AssertionPassedNegatedStrict(isNegated, l) ==
  IF ~isNegated
    THEN Len(l.missing) = 0 /\ Cardinality(DOMAIN l.mismatched) = 0
    ELSE Len(l.found) = 0 /\ Cardinality(DOMAIN l.mismatched) = 0

\* A variant whose negated branch always passes.
AssertionPassedNegatedAlways(isNegated, l) ==
  IF ~isNegated
    THEN Len(l.missing) = 0 /\ Cardinality(DOMAIN l.mismatched) = 0
    ELSE TRUE

\* A variant whose non-negated branch wants at least one name found.
AssertionPassedNeedsAFoundName(isNegated, l) ==
  IF ~isNegated
    THEN Len(l.missing) = 0 /\ Cardinality(DOMAIN l.mismatched) = 0 /\ Len(l.found) > 0
    ELSE Len(l.found) = 0

\* assertionPassed (lines 280-320): non-negated, nothing is missing and no
\* value differs; negated, no forbidden property was found.
AssertionPassed(isNegated, l) ==
  IF ~isNegated
    THEN Len(l.missing) = 0 /\ Cardinality(DOMAIN l.mismatched) = 0
    ELSE Len(l.found) = 0

NoAssertMessage ==
  [kind |-> "none", descriptor |-> "", mismatchedPart |-> FALSE,
   foundPart |-> FALSE, listed |-> <<>>]

\* matchedForbiddenValues (lines 313-316): the entries of properties whose
\* key is in foundProperties.
MatchedForbiddenKeys(properties, l) ==
  SelectSeq(ObjectKeys(properties),
            LAMBDA k : \E i \in 1..Len(l.found) : l.found[i] = StringName(k))

Keys(names) == [i \in 1..Len(names) |-> names[i].key]

\* A variant that tests "nothing found" before "nothing missing".
MessageKindMissingAllFirst(isNegated, l) ==
  LET n == Cardinality(DOMAIN l.mismatched)
  IN  IF ~isNegated
        THEN IF Len(l.found) = 0 /\ n = 0 THEN "was missing all expected"
             ELSE IF Len(l.missing) = 0 /\ n = 0 THEN "had all expected"
             ELSE "was missing expected"
        ELSE IF Len(l.found) = 0 THEN "did not have any forbidden"
             ELSE "had forbidden"

\* The branch of lines 286-320 that builds assertMessage, by the sentence
\* it starts.
MessageKind(isNegated, l) ==
  LET n == Cardinality(DOMAIN l.mismatched)
  IN  IF ~isNegated
        THEN IF Len(l.missing) = 0 /\ n = 0 THEN "had all expected"
             ELSE IF Len(l.found) = 0 /\ n = 0 THEN "was missing all expected"
             ELSE "was missing expected"
        ELSE IF Len(l.found) = 0 THEN "did not have any forbidden"
             ELSE "had forbidden"

\* assertMessage (lines 285-320): which sentence is built, with which
\* descriptor, which optional parts, and the names its list shows.
AssertMessage(isNegated, doValueCheck, descriptor, properties, l) ==
  LET n    == Cardinality(DOMAIN l.mismatched)
      kind == MessageKind(isNegated, l)
      only == [kind |-> kind, descriptor |-> descriptor,
               mismatchedPart |-> FALSE, foundPart |-> FALSE, listed |-> <<>>]
  IN  CASE kind = "had all expected" ->
             [only EXCEPT !.listed = IF doValueCheck THEN ObjectKeys(properties)
                                     ELSE Keys(properties.names)]
        [] kind = "was missing all expected" ->
             [only EXCEPT !.listed = Keys(l.missing)]
        [] kind = "was missing expected" ->
             [only EXCEPT !.mismatchedPart = n > 0,
                          !.foundPart = Len(l.found) > 0,
                          !.listed = Keys(l.missing)]
        [] kind = "did not have any forbidden" -> only
        [] OTHER ->
             [only EXCEPT !.listed = IF ~doValueCheck THEN Keys(l.found)
                                     ELSE MatchedForbiddenKeys(properties, l)]

NoAssertArgs == [called |-> FALSE, expr |-> FALSE, expected |-> "", actual |-> Null]

\* A variant that hands assertionPassed to the host without flipping it
\* for a negated chain.
AssertArgsUnflipped(isNegated, passed, obj) ==
  [called   |-> TRUE,
   expr     |-> passed,
   expected |-> IF ~isNegated THEN "properties" ELSE "None of: properties",
   actual   |-> obj]

\* The arguments of this.assert (lines 322-330).
AssertArgs(isNegated, passed, obj) ==
  [called   |-> TRUE,
   expr     |-> IF ~isNegated THEN passed ELSE ~passed,
   expected |-> IF ~isNegated THEN "properties" ELSE "None of: properties",
   actual   |-> obj]

\* A variant that writes the flag in every call, given a message or not.
SetMessageFlagAlways(f, message) == [f EXCEPT !.message = message]

\* if (message) flag(this, 'message', message)  (lines 171-173)
SetMessageFlag(f, message) == IF message # "" THEN [f EXCEPT !.message = message] ELSE f

\* A variant that validates after the assert: the error is thrown by a call
\* that has already handed its verdict to the host.
ValidationFailureAfterAssert(base, err, flagMsg) ==
  [base EXCEPT !.outcome = err, !.errorText = flagMsg \o ErrorText(err),
               !.assertArgs = AssertArgs(base.flags.negate, FALSE, base.flags.object)]

\* throw new AssertionError(flagMessage + ..., undefined, ssfi) of lines
\* 187-211: the call ends here, with what it had computed so far.
ValidationFailure(base, err, flagMsg) ==
  [base EXCEPT !.outcome = err, !.errorText = flagMsg \o ErrorText(err)]

\* hasAllProperties(properties, message) on a chain whose flags are f
\* (lines 168-331): the flags it leaves and everything the call computed.
hasAllProperties(f, properties, message, hostThrows) ==
  LET flags1     == SetMessageFlag(f, message)
      isNested   == flags1.nested
      isOwn      == flags1.own
      obj        == flags1.object
      flagMsg    == FlagMessage(flags1.message)
      isDeep     == flags1.deep
      isNegated  == flags1.negate
      valueCheck == isRecord(properties)
      base       == [flags |-> flags1, doValueCheck |-> valueCheck,
                     outcome |-> "none", errorText |-> "", lists |-> EmptyLists,
                     assertMessage |-> NoAssertMessage, assertArgs |-> NoAssertArgs]
  IN  IF getNameTypesThrows(properties)
        THEN [base EXCEPT !.outcome = "TypeError"]
      ELSE LET err == Validate(isNested, isOwn, obj, getNameTypes(properties))
           IN  IF err # "ok"
                 THEN ValidationFailure(base, err, flagMsg)
               ELSE LET c == [obj |-> obj, isNested |-> isNested, isOwn |-> isOwn,
                              isDeep |-> isDeep, hostThrows |-> hostThrows]
                        l == Classify(c, Entries(properties, valueCheck), 1, EmptyLists)
                        passed == AssertionPassed(isNegated, l)
                    IN  IF l.threw
                          THEN [base EXCEPT !.outcome = "TypeError", !.lists = l]
                        ELSE [base EXCEPT
                                !.outcome = HostAssert(isNegated,
                                              AssertArgs(isNegated, passed, obj).expr),
                                !.lists = l,
                                !.assertMessage =
                                   AssertMessage(isNegated, valueCheck,
                                     Descriptor(isDeep, isOwn, isNested, valueCheck),
                                     properties, l),
                                !.assertArgs = AssertArgs(isNegated, passed, obj)]

-----------------------------------------------------------------------------
(* Registration (initHaveAllPropertiesPlugin) and the call of a method of   *)
(* the chain by its name.                                                   *)

\* The names under which the documentation offers the assertion.
DocumentedNames == {"properties", "allProperties", "ownProperties", "haveOwnProperties"}

\* The names the documentation gives for own.properties.
OwnAliases == {"ownProperties", "haveOwnProperties"}

\* A variant that registers the empty hasAtLeastNProperties as allProperties.
MethodTableWithStub(name) ==
  CASE name = "properties" -> "hasAllProperties"
    [] name = "allProperties" -> "hasAtLeastNProperties"
    [] OTHER -> "none"

\* Assertion.addMethod (lines 36-38): the function registered under a name,
\* "none" for a name that no addMethod call registers.
MethodTable(name) ==
  CASE name = "properties" -> "hasAllProperties"
    [] name = "allProperties" -> "hasAllProperties"
    [] OTHER -> "none"

\* What a call leaves when it computes nothing: the chain's flags as they
\* were, no collections, no assert.
Untouched(f, how) ==
  [flags |-> f, doValueCheck |-> FALSE, outcome |-> how, errorText |-> "",
   lists |-> EmptyLists, assertMessage |-> NoAssertMessage,
   assertArgs |-> NoAssertArgs]

\* hasAtLeastNProperties (lines 27-29): an empty body.
hasAtLeastNProperties(f) == Untouched(f, "pass")

\* chain[name](properties, message): the registered function runs; a name
\* that is not registered is no method of the chain and the call throws.
Invoke(name, f, p, m, hostThrows) ==
  CASE MethodTable(name) = "hasAllProperties" -> hasAllProperties(f, p, m, hostThrows)
    [] MethodTable(name) = "hasAtLeastNProperties" -> hasAtLeastNProperties(f)
    [] OTHER -> Untouched(f, "NotAMethod")

-----------------------------------------------------------------------------
(* The state: the chain's flags, and what the last call on it was given,    *)
(* computed and did.                                                        *)

VARIABLES
  flags,                      \* the chain's flags (utils.flag)
  method,                     \* the name the last call was made under
  properties,                 \* the properties argument of the last call
  message,                    \* its message argument ("" when none is given)
  doValueCheck,               \* isRecord(properties), lines 47 and 218
  foundProperties,            \* line 232
  missingProperties,          \* line 233
  valueMismatchedProperties,  \* line 234
  assertMessage,              \* line 285
  assertArgs,                 \* what this.assert was called with, if it was
  resolverCalls,              \* calls of utils.getPathInfo made by the call
  errorText,                  \* the text of the validation error thrown
  outcome                     \* how the call ended

vars == <<flags, method, properties, message, doValueCheck, foundProperties,
          missingProperties, valueMismatchedProperties, assertMessage,
          assertArgs, resolverCalls, errorText, outcome>>

\* expect(object) followed by the chain's language flags; no call yet.
Init ==
  /\ flags \in [object : Targets, nested : BOOLEAN, own : BOOLEAN,
                deep : BOOLEAN, negate : BOOLEAN, message : {""}]
  /\ method = ""
  /\ properties = ArrayOf(<<>>)
  /\ message = ""
  /\ doValueCheck = FALSE
  /\ foundProperties = <<>>
  /\ missingProperties = <<>>
  /\ valueMismatchedProperties = NoProps
  /\ assertMessage = NoAssertMessage
  /\ assertArgs = NoAssertArgs
  /\ resolverCalls = 0
  /\ errorText = ""
  /\ outcome = "none"

\* One call chain[name](p, m).
Call(name, p, m, hostThrows) ==
  \E r \in {Invoke(name, flags, p, m, hostThrows)} :
      /\ flags' = r.flags
      /\ method' = name
      /\ properties' = p
      /\ message' = m
      /\ doValueCheck' = r.doValueCheck
      /\ foundProperties' = r.lists.found
      /\ missingProperties' = r.lists.missing
      /\ valueMismatchedProperties' = r.lists.mismatched
      /\ assertMessage' = r.assertMessage
      /\ assertArgs' = r.assertArgs
      /\ resolverCalls' = r.lists.resolverCalls
      /\ errorText' = r.errorText
      /\ outcome' = r.outcome

\* The host's answers to a path that is no string matter only to a call
\* that hands it one.
HostChoices(p) ==
  IF \E i \in 1..Len(p.names) : typeof(p.names[i]) # "string" THEN BOOLEAN ELSE {FALSE}

\* .properties([names], message) or .allProperties([names], message)
PropertiesOfNames ==
  /\ outcome = "none"
  /\ \E name \in {"properties", "allProperties"}, p \in ArrayInputs, m \in Messages :
       \E hostThrows \in HostChoices(p) : Call(name, p, m, hostThrows)

\* .properties({name: value}, message) or .allProperties({name: value}, message)
PropertiesOfValues ==
  /\ outcome = "none"
  /\ \E name \in {"properties", "allProperties"}, p \in RecordInputs, m \in Messages :
       Call(name, p, m, FALSE)

\* .ownProperties([names]) or .haveOwnProperties([names]), the names the
\* documentation gives for .own.properties
OwnPropertiesOfNames ==
  /\ outcome = "none"
  /\ \E name \in OwnAliases, p \in {ArrayOf(<<StringName("a")>>), ArrayOf(<<StringName("b")>>)} :
       Call(name, p, "", FALSE)

\* The call returns or its exception reaches the caller: its locals are
\* gone, the chain and its flags stay.
Return ==
  /\ outcome # "none"
  /\ method' = ""
  /\ properties' = ArrayOf(<<>>)
  /\ message' = ""
  /\ doValueCheck' = FALSE
  /\ foundProperties' = <<>>
  /\ missingProperties' = <<>>
  /\ valueMismatchedProperties' = NoProps
  /\ assertMessage' = NoAssertMessage
  /\ assertArgs' = NoAssertArgs
  /\ resolverCalls' = 0
  /\ errorText' = ""
  /\ outcome' = "none"
  /\ UNCHANGED flags

Next == PropertiesOfNames \/ PropertiesOfValues \/ OwnPropertiesOfNames \/ Return

Spec == Init /\ [][Next]_vars

-----------------------------------------------------------------------------
(* Vocabulary of the properties below.                                      *)

\* properties() (or allProperties()) has been called and has not returned yet.
Called == outcome # "none" /\ method \in {"properties", "allProperties"}

\* The call classified its names and reached this.assert.
Asserted == assertArgs.called

Range(seq) == {seq[i] : i \in 1..Len(seq)}
Count(seq, x) == Cardinality({i \in 1..Len(seq) : seq[i] = x})

\* The names the caller expects, as given (not as the code reads them).
ExpectedNameSet ==
  IF properties.kind = "array" THEN Range(properties.names)
  ELSE {StringName(k) : k \in DOMAIN properties.dict}

\* How often the caller listed the name n.
Occurrences(n) ==
  IF properties.kind = "array" THEN Count(properties.names, n)
  ELSE IF n \in ExpectedNameSet THEN 1 ELSE 0

FoundSet      == Range(foundProperties)
MissingSet    == Range(missingProperties)
MismatchedSet == {StringName(k) : k \in DOMAIN valueMismatchedProperties}

PairwiseDisjoint ==
  /\ FoundSet \cap MissingSet = {}
  /\ FoundSet \cap MismatchedSet = {}
  /\ MissingSet \cap MismatchedSet = {}

\* The target and the expected properties of the repository's tests
onePropertyObject == Target("object", [k \in {"a"} |-> Number(5)], NoProps)
JustA == ArrayOf(<<StringName("a")>>)
JustB == ArrayOf(<<StringName("b")>>)

\* nested and own are not both set
FlagsCompatible == ~(flags.nested /\ flags.own)

-----------------------------------------------------------------------------
(* C1 as stated: in every call that reached its assert, found, missing and  *)
(* keys(mismatched) are pairwise disjoint, their union is the set of        *)
(* expected names, and no name is recorded more than once.                  *)
C1_EachNameRecordedOnce ==
  Asserted =>
    /\ PairwiseDisjoint
    /\ FoundSet \cup MissingSet \cup MismatchedSet = ExpectedNameSet
    /\ Len(foundProperties) = Cardinality(FoundSet)
    /\ Len(missingProperties) = Cardinality(MissingSet)

(* C1, amended: in every call that reached its assert the three collections *)
(* are pairwise disjoint, their union is the set of expected names, and     *)
(* every name is recorded exactly as often as the caller listed it (once    *)
(* per entry: a name listed twice in the array is recorded twice).          *)
C1_EachEntryRecordedOnce ==
  Asserted =>
    /\ PairwiseDisjoint
    /\ FoundSet \cup MissingSet \cup MismatchedSet = ExpectedNameSet
    /\ \A n \in ExpectedNameSet :
         Count(foundProperties, n) + Count(missingProperties, n)
           + (IF n \in MismatchedSet THEN 1 ELSE 0) = Occurrences(n)

\* A name listed twice was found twice.
C1_Witness ==
  /\ Asserted
  /\ properties = ArrayOf(<<StringName("a"), StringName("a")>>)
  /\ foundProperties = <<StringName("a"), StringName("a")>>

(* C2: a non-negated call that reached its assert passes if and only if     *)
(* missing is empty and mismatched is empty; on the target {a: 5} it passes *)
(* for ['a'] and throws the assertion failure for ['b'].                    *)
C2_NonNegatedPassesIffNothingMissingOrMismatched ==
  /\ (Asserted /\ ~flags.negate) =>
       (outcome = "pass" <=>
          (missingProperties = <<>> /\ DOMAIN valueMismatchedProperties = {}))
  /\ (Called /\ ~flags.negate /\ FlagsCompatible /\ flags.object = onePropertyObject) =>
       /\ (properties = JustA => outcome = "pass")
       /\ (properties = JustB => outcome = "AssertionFailure")

\* The test 'assert 1/1 property present'
C2_Witness ==
  /\ Asserted /\ ~flags.negate /\ ~flags.nested /\ ~flags.own
  /\ flags.object = onePropertyObject
  /\ properties = JustA
  /\ outcome = "pass"

(* C3 as stated: a negated call that reached its assert passes if and only  *)
(* if found is empty and mismatched is empty.                               *)
C3_NegatedPassesIffNoneFoundNoneMismatched ==
  (Asserted /\ flags.negate) =>
    (outcome = "pass" <=>
       (foundProperties = <<>> /\ DOMAIN valueMismatchedProperties = {}))

(* C3, amended: a negated call that reached its assert passes if and only   *)
(* if found is empty; mismatched may hold names.                            *)
C3_NegatedPassesIffNoneFound ==
  (Asserted /\ flags.negate) => (outcome = "pass" <=> Len(foundProperties) = 0)

\* A negated call passes although a forbidden name is present with another value.
C3_Witness ==
  /\ Asserted /\ flags.negate
  /\ outcome = "pass"
  /\ DOMAIN valueMismatchedProperties # {}

(* C4: in negated mode a call that reached its assert passes when no name   *)
(* was classified as found, whatever is in mismatched, and throws the       *)
(* assertion failure when at least one name was found; on the target        *)
(* {a: 5} the negated call throws for ['a'] and passes for ['b'].           *)
C4_NegatedThrowsOnceFound ==
  /\ (Asserted /\ flags.negate) =>
       /\ (FoundSet = {} => outcome = "pass")
       /\ (FoundSet # {} => outcome = "AssertionFailure")
  /\ (Called /\ flags.negate /\ FlagsCompatible /\ flags.object = onePropertyObject) =>
       /\ (properties = JustA => outcome = "AssertionFailure")
       /\ (properties = JustB => outcome = "pass")

\* The test 'assert not 1/1 property present'
C4_Witness ==
  /\ Asserted /\ flags.negate /\ ~flags.nested /\ ~flags.own
  /\ flags.object = onePropertyObject
  /\ properties = JustA
  /\ outcome = "AssertionFailure"

-----------------------------------------------------------------------------
(* What the target holds, read off the target and the chain's flags.        *)

\* Presence of the name under the chain's lookup mode (one-segment paths)
PresentOnTarget(name) ==
  IF flags.own THEN hasOwnProperty(flags.object, name) ELSE hasProperty(flags.object, name)

\* Equality under the chain's equality mode
EqualOnChain(expected, actual) ==
  IF flags.deep THEN deepEqual(expected, actual) ELSE StrictEquals(expected, actual)

\* The types of the names the caller expects.
ExpectedNameTypes == {typeof(n) : n \in ExpectedNameSet}

(* C5: value-check mode is active exactly when the expected properties are  *)
(* a mapping, presence-only mode exactly when they are a sequence.          *)
C5_ValueCheckIffMapping ==
  Called => (doValueCheck <=> properties.kind = "record")

(* C6: when the expected properties are a mapping and a name is present on  *)
(* the target with a value that does not equal the expected one, the name   *)
(* is in mismatched with its actual value, and the non-negated call ends    *)
(* in the assertion failure.  (An expected value of undefined is C7's.)     *)
C6_MismatchRecordedWithActualValue ==
  (Called /\ properties.kind = "record" /\ ~isNullish(flags.object) /\ FlagsCompatible) =>
    \A k \in DOMAIN properties.dict :
      (/\ properties.dict[k] # Undefined
       /\ PresentOnTarget(StringName(k))
       /\ ~EqualOnChain(properties.dict[k], Get(flags.object, StringName(k)))) =>
         /\ k \in DOMAIN valueMismatchedProperties
         /\ valueMismatchedProperties[k] = Get(flags.object, StringName(k))
         /\ (~flags.negate => outcome = "AssertionFailure")

(* C7: in a call that reached its assert, a mapping entry name -> undefined *)
(* on a target that has the name with a defined value puts the name in      *)
(* mismatched and not in found.                                             *)
C7_UndefinedIsARealExpectation ==
  (Asserted /\ properties.kind = "record") =>
    \A k \in DOMAIN properties.dict :
      (/\ properties.dict[k] = Undefined
       /\ PresentOnTarget(StringName(k))
       /\ Get(flags.object, StringName(k)) # Undefined) =>
         /\ k \in DOMAIN valueMismatchedProperties
         /\ StringName(k) \notin FoundSet

(* C8: a call given a sequence of names never populates mismatched, and     *)
(* once it reached its assert every name is in found or in missing.         *)
C8_PresenceOnlyNeverMismatches ==
  (Called /\ properties.kind = "array") =>
    /\ DOMAIN valueMismatchedProperties = {}
    /\ (Asserted => FoundSet \cup MissingSet = ExpectedNameSet)

\* A presence-only call with one name found and one missing
C8_Witness ==
  /\ Asserted /\ properties.kind = "array"
  /\ foundProperties # <<>>
  /\ missingProperties # <<>>

(* C9: with a null or undefined target, properties() fails with the         *)
(* null-target error in every lookup mode whenever the name types were      *)
(* computed and the name-type checks and the flag-combination check pass.   *)
C9_NullTargetErrorInEveryMode ==
  (/\ Called
   /\ ~getNameTypesThrows(properties)
   /\ isNullish(flags.object)
   /\ FlagsCompatible
   /\ (flags.nested => ExpectedNameTypes \subseteq {"string"})
   /\ (~flags.nested => ExpectedNameTypes \subseteq PropertyNameTypes)) =>
     /\ outcome = "NullTargetError"
     /\ errorText = FlagMessage(flags.message) \o "Target cannot be null or undefined."

(* C10 as stated: with nested and own both set, properties() raises the     *)
(* configuration error whatever the target and the expected names are.      *)
C10_NestedOwnAlwaysConfigurationError ==
  (Called /\ flags.nested /\ flags.own) => outcome = "NestedOwnError"

(* C10, amended: with nested and own both set, a call whose name types      *)
(* getNameTypes could compute raises the configuration error whatever the   *)
(* target is when every expected name is a string, and the nested-names     *)
(* type error when one is not.                                              *)
C10_NestedOwnConfigurationErrorForStringNames ==
  (Called /\ flags.nested /\ flags.own /\ ~getNameTypesThrows(properties)) =>
    IF ExpectedNameTypes \subseteq {"string"}
      THEN /\ outcome = "NestedOwnError"
           /\ errorText = FlagMessage(flags.message)
                            \o "The \"nested\" and \"own\" flags cannot be combined."
      ELSE outcome = "NestedNamesError"

\* The configuration error on a null target
C10_Witness ==
  /\ Called /\ flags.nested /\ flags.own
  /\ flags.object = Null
  /\ properties = JustA
  /\ outcome = "NestedOwnError"

-----------------------------------------------------------------------------
(* Validation (lines 185-212), read off the call's inputs.                  *)

\* Some expected name is not a string.
SomeNameNotString == \E n \in ExpectedNameSet : typeof(n) # "string"

\* Some expected name is neither a string, a number nor a symbol.
SomeNameOfOtherType ==
  \E n \in ExpectedNameSet : typeof(n) \notin {"string", "number", "symbol"}

\* Nothing was classified, the resolver was not asked, and this.assert was
\* not called.
NothingClassified ==
  /\ foundProperties = <<>>
  /\ missingProperties = <<>>
  /\ DOMAIN valueMismatchedProperties = {}
  /\ resolverCalls = 0
  /\ ~assertArgs.called

(* C11: in nested mode, if any expected name is not a string, properties()  *)
(* raises the nested-names type error, whatever the other flags and the     *)
(* target are, before any name is classified, before the resolver is asked  *)
(* and before the host's assert is called.                                  *)
C11_NestedNonStringNameRaisesBeforeClassification ==
  (Called /\ flags.nested /\ SomeNameNotString) =>
    /\ outcome = "NestedNamesError"
    /\ errorText = FlagMessage(flags.message)
         \o "the arguments to properties must all be strings when using nested syntax"
    /\ NothingClassified

\* nested.properties(['a', 1]) on an object: the error, nothing classified
C11_Witness ==
  /\ Called /\ flags.nested /\ ~flags.own
  /\ ~isNullish(flags.object)
  /\ properties = ArrayOf(<<StringName("a"), NumberName>>)
  /\ outcome = "NestedNamesError"
  /\ resolverCalls = 0

\* The error of the first check, in the order of C12, that the call's
\* inputs fail; "ok" when they fail none.
FirstFailingCheck ==
  IF flags.nested /\ SomeNameNotString THEN "NestedNamesError"
  ELSE IF flags.nested /\ flags.own THEN "NestedOwnError"
  ELSE IF ~flags.nested /\ SomeNameOfOtherType THEN "NameTypeError"
  ELSE IF isNullish(flags.object) THEN "NullTargetError"
  ELSE "ok"

(* C12: the four validation checks run in the order nested-names,           *)
(* nested-with-own, name types, null target: a call whose name types were   *)
(* computed and whose inputs fail one or more checks ends in the error of   *)
(* the first check they fail.                                               *)
C12_FirstFailingCheckWins ==
  (Called /\ ~getNameTypesThrows(properties) /\ FirstFailingCheck # "ok") =>
    outcome = FirstFailingCheck

(* C13: with nested mode off, a call given a sequence of names raises the   *)
(* name-type error if and only if some name is neither a string, a number   *)
(* nor a symbol; a sequence of strings, numbers and symbols raises none.    *)
C13_NameTypeErrorIffOtherType ==
  (Called /\ ~flags.nested /\ properties.kind = "array") =>
    /\ (outcome = "NameTypeError" <=> SomeNameOfOtherType)
    /\ (outcome = "NameTypeError" =>
          /\ errorText = FlagMessage(flags.message)
               \o "the argument to properties must all be strings, numbers, or symbols"
          /\ NothingClassified)

\* A boolean among the names raises the error ...
C13_Witness ==
  /\ Called /\ ~flags.nested
  /\ properties = ArrayOf(<<StringName("a"), BooleanName>>)
  /\ outcome = "NameTypeError"

-----------------------------------------------------------------------------
(* The chain's subject, the life of the collections, and the method names.  *)

(* C14: a properties() call that passes changes the subject of the chain    *)
(* (the host's 'object' flag) from the original target to the evaluated     *)
(* properties, so that the subject after the call is not the target the     *)
(* call was made on.                                                        *)
C14_PassingCallChangesSubject ==
  [][(outcome = "none" /\ outcome' = "pass" /\ method' \in {"properties", "allProperties"})
       => flags'.object # flags.object]_vars

\* The number of entries the caller expects.
ExpectedEntries ==
  IF properties.kind = "array" THEN Len(properties.names)
  ELSE Cardinality(DOMAIN properties.dict)

\* The collections hold names of this call's expected properties only, and
\* no more names than the call has entries.
CollectionsOfThisCallOnly ==
  /\ FoundSet \cup MissingSet \cup MismatchedSet \subseteq ExpectedNameSet
  /\ Len(foundProperties) + Len(missingProperties)
       + Cardinality(DOMAIN valueMismatchedProperties) <= ExpectedEntries

(* C15: no step changes the target (the chain holds after every call the    *)
(* object it held before, as it was), and the collections of every call     *)
(* start empty: whatever calls were made on the chain before, they hold     *)
(* names of this call's expected properties only, at most one per entry.    *)
C15_TargetUntouchedAndCollectionsFresh ==
  [][flags'.object = flags.object /\ CollectionsOfThisCallOnly']_vars

\* A second call on a chain whose first call left its message: it misses b
\* and has nothing of the first call in its collections.
C15_Witness ==
  /\ Asserted
  /\ flags.message # "" /\ message = ""
  /\ flags.object = onePropertyObject
  /\ properties = JustB
  /\ foundProperties = <<>>
  /\ missingProperties = <<StringName("b")>>

(* C16: allProperties is registered like properties: a call under the name  *)
(* allProperties ends, for the same target, flags, expected properties and  *)
(* message, as the checker hasAllProperties ends (same error and text, or   *)
(* both pass), and on {a: 5} it passes for ['a'] and fails for ['b'].       *)
C16_AllPropertiesBehavesAsProperties ==
  (outcome # "none" /\ method = "allProperties") =>
    /\ \E hostThrows \in BOOLEAN :
         \E r \in {hasAllProperties(flags, properties, message, hostThrows)} :
           /\ outcome = r.outcome
           /\ errorText = r.errorText
           /\ assertMessage = r.assertMessage
    /\ (/\ ~flags.negate /\ FlagsCompatible
        /\ flags.object = onePropertyObject) =>
         /\ (properties = JustA => outcome = "pass")
         /\ (properties = JustB => outcome = "AssertionFailure")

\* allProperties(['b']) on {a: 5} fails as properties(['b']) does
C16_Witness ==
  /\ method = "allProperties"
  /\ ~flags.negate /\ ~flags.nested /\ ~flags.own
  /\ flags.object = onePropertyObject
  /\ properties = JustB
  /\ outcome = "AssertionFailure"
  /\ missingProperties = <<StringName("b")>>

(* C17: ownProperties and haveOwnProperties are methods of the chain after  *)
(* registration, and a call under either name ends as properties() ends     *)
(* with the own flag set.                                                   *)
C17_OwnAliasesBehaveAsOwnProperties ==
  (outcome # "none" /\ method \in OwnAliases) =>
    outcome = hasAllProperties([flags EXCEPT !.own = TRUE], properties, message, FALSE).outcome

-----------------------------------------------------------------------------
(* Lookup modes and equality modes.                                         *)

\* The name is defined on the target itself / only along its prototype chain.
DefinedOnTarget(n) == n.key \in DOMAIN flags.object.own
OnlyInherited(n) ==
  n.key \in DOMAIN flags.object.proto /\ n.key \notin DOMAIN flags.object.own

\* The name was classified as present: found, or compared and mismatched.
ClassifiedPresent(n) == n \in FoundSet \cup MismatchedSet

(* C18: in a call without the nested flag that reached its assert, a name   *)
(* defined only along the target's prototype chain is missing (and not      *)
(* found) with the own flag and found without it, and a name defined on the *)
(* target itself is classified as present in both modes (found, when the    *)
(* expected properties are a sequence of names).                            *)
C18_OwnDecidesInheritedPresence ==
  (Asserted /\ ~flags.nested) =>
    \A n \in ExpectedNameSet :
      /\ (OnlyInherited(n) /\ flags.own) =>
           (n \in MissingSet /\ ~ClassifiedPresent(n))
      /\ (OnlyInherited(n) /\ ~flags.own) =>
           (n \notin MissingSet /\ ClassifiedPresent(n)
              /\ (properties.kind = "array" => n \in FoundSet))
      /\ DefinedOnTarget(n) =>
           (n \notin MissingSet /\ ClassifiedPresent(n)
              /\ (properties.kind = "array" => n \in FoundSet))

\* own.properties(['a', 'b']) on {a: ...} with b inherited: a found, b missing
C18_Witness ==
  /\ Asserted /\ flags.own /\ ~flags.nested
  /\ properties = ArrayOf(<<StringName("a"), StringName("b")>>)
  /\ DefinedOnTarget(StringName("a")) /\ OnlyInherited(StringName("b"))
  /\ foundProperties = <<StringName("a")>>
  /\ missingProperties = <<StringName("b")>>

\* Two values of the same structure that are not the same value.
EqualButNotIdentical(x, y) == x.type = y.type /\ x.num = y.num /\ x # y

(* C19: in a value-check call that reached its assert, a name that is       *)
(* present with a value structurally equal to the expected value but not    *)
(* identical to it is found (and not mismatched) with the deep flag and     *)
(* mismatched with its actual value (and not found) without it; a value     *)
(* identical to the expected one is found in both modes.                    *)
C19_DeepComparesStructureStrictComparesIdentity ==
  (Asserted /\ properties.kind = "record") =>
    \A k \in DOMAIN properties.dict \cap DictKeys :
      LET n        == StringName(k)
          expected == properties.dict[k]
          actual   == Get(flags.object, n)
      IN  (PresentOnTarget(n) /\ expected # Undefined) =>
            /\ (EqualButNotIdentical(expected, actual) /\ flags.deep) =>
                 (n \in FoundSet /\ n \notin MismatchedSet)
            /\ (EqualButNotIdentical(expected, actual) /\ ~flags.deep) =>
                 (/\ n \notin FoundSet
                  /\ n \in MismatchedSet
                  /\ valueMismatchedProperties[k] = actual)
            /\ expected = actual => (n \in FoundSet /\ n \notin MismatchedSet)

\* deep.properties({a: <an object>, key: 1}) on a target whose a is another
\* object of the same structure: a is found
C19_Witness ==
  /\ Asserted /\ flags.deep
  /\ properties.kind = "record"
  /\ "a" \in DOMAIN properties.dict
  /\ properties.dict["a"] = Object(2)
  /\ Get(flags.object, StringName("a")) = Object(1)
  /\ StringName("a") \in FoundSet

(* C20: in a nested call that reached its assert, a name is missing exactly *)
(* when the resolver's `exists` for that path on the target is false, and a *)
(* present name with an expected value is compared with the resolver's      *)
(* `value`: found when they are equal, else mismatched with that value.     *)
(* On {a: {b: [10, 20]}} nested.properties(['a.b[1]']) passes non-negated,  *)
(* and 'a.b[1]' resolves to 20.                                             *)
C20_NestedPresenceAndValueAreTheResolvers ==
  /\ (Asserted /\ flags.nested) =>
       \A n \in ExpectedNameSet :
         \E pathInfo \in {getPathInfo(flags.object, n, FALSE)} :
           /\ n \in MissingSet <=> ~pathInfo.exists
           /\ (pathInfo.exists /\ properties.kind = "array") => n \in FoundSet
           /\ (/\ pathInfo.exists /\ properties.kind = "record"
               /\ properties.dict[n.key] # Undefined) =>
                IF EqualOnChain(properties.dict[n.key], pathInfo.value)
                  THEN n \in FoundSet /\ n \notin MismatchedSet
                  ELSE /\ n \notin FoundSet
                       /\ n \in MismatchedSet
                       /\ valueMismatchedProperties[n.key] = pathInfo.value
  /\ (/\ Called /\ flags.nested /\ ~flags.own /\ ~flags.negate
      /\ flags.object = nestedObject) =>
       /\ properties = ArrayOf(<<StringName("a.b[1]")>>) => outcome = "pass"
       /\ (Asserted /\ properties.kind = "record"
             /\ "a.b[1]" \in DOMAIN properties.dict) =>
            IF properties.dict["a.b[1]"] = Number(20)
              THEN StringName("a.b[1]") \in FoundSet
              ELSE /\ "a.b[1]" \in DOMAIN valueMismatchedProperties
                   /\ valueMismatchedProperties["a.b[1]"] = Number(20)

\* The scenario: nested.properties(['a.b[1]']) on {a: {b: [10, 20]}} passes
C20_Witness ==
  /\ Asserted /\ flags.nested /\ ~flags.negate
  /\ flags.object = nestedObject
  /\ properties = ArrayOf(<<StringName("a.b[1]")>>)
  /\ foundProperties = <<StringName("a.b[1]")>>
  /\ outcome = "pass"

-----------------------------------------------------------------------------
(* Validation, classification and the host's assert within one call.        *)

\* The errors the validation of lines 185-212 throws.
ValidationErrors ==
  {"NestedNamesError", "NestedOwnError", "NameTypeError", "NullTargetError"}

(* C21: whenever a call ends in one of the four validation errors, no       *)
(* expected name has been classified, the resolver has not been asked and   *)
(* the host's assert has not been called in that call.                      *)
C21_ValidationFailureShortCircuits ==
  (Called /\ outcome \in ValidationErrors) => NothingClassified

\* properties(['a', 'b']) on null: the null-target error, nothing classified
C21_Witness ==
  /\ Called /\ ~flags.nested
  /\ flags.object = Null
  /\ properties = ArrayOf(<<StringName("a"), StringName("b")>>)
  /\ outcome = "NullTargetError"
  /\ NothingClassified

(* C22: every call whose name types were computed and that ends in no       *)
(* validation error classifies every expected entry and calls the host's    *)
(* assert, handing it `passed` (non-negated) or `not passed` (negated) and  *)
(* the target; its outcome is then the host's: pass or assertion failure.   *)
C22_ValidatedCallAssertsOnce ==
  (Called /\ ~getNameTypesThrows(properties) /\ outcome \notin ValidationErrors) =>
    /\ assertArgs.called
    /\ Len(foundProperties) + Len(missingProperties)
         + Cardinality(DOMAIN valueMismatchedProperties) = ExpectedEntries
    /\ assertArgs.actual = flags.object
    /\ outcome \in {"pass", "AssertionFailure"}

(* C23: without the nested flag the resolver takes no part in a call, and   *)
(* a call on an object whose names are strings, numbers or symbols reaches  *)
(* its assert with every name classified.                                   *)
C23_ResolverOnlyInNestedMode ==
  (Called /\ ~flags.nested) =>
    /\ resolverCalls = 0
    /\ (/\ properties.kind = "array"
        /\ ~SomeNameOfOtherType
        /\ ~isNullish(flags.object)) =>
         (Asserted /\ FoundSet \cup MissingSet = ExpectedNameSet)

(* C24: in a non-negated call that reached its assert the message is the    *)
(* 'had all expected' one when missing and mismatched are empty; otherwise  *)
(* the 'was missing all expected' one, listing the missing names, when      *)
(* found and mismatched are empty; otherwise the mixed one, which lists the *)
(* missing names, then the mismatched ones exactly when there are any, then *)
(* the found ones exactly when there are any.                               *)
C24_NonNegatedMessagePriority ==
  (Asserted /\ ~flags.negate) =>
    IF missingProperties = <<>> /\ DOMAIN valueMismatchedProperties = {}
      THEN /\ assertMessage.kind = "had all expected"
           /\ ~assertMessage.mismatchedPart /\ ~assertMessage.foundPart
    ELSE IF foundProperties = <<>> /\ DOMAIN valueMismatchedProperties = {}
      THEN /\ assertMessage.kind = "was missing all expected"
           /\ assertMessage.listed = Keys(missingProperties)
           /\ ~assertMessage.mismatchedPart /\ ~assertMessage.foundPart
    ELSE /\ assertMessage.kind = "was missing expected"
         /\ assertMessage.listed = Keys(missingProperties)
         /\ assertMessage.mismatchedPart <=> DOMAIN valueMismatchedProperties # {}
         /\ assertMessage.foundPart <=> foundProperties # <<>>

\* The mixed message with both optional parts: one value differs, one name
\* is found
C24_Witness ==
  /\ Asserted /\ ~flags.negate
  /\ DOMAIN valueMismatchedProperties # {}
  /\ foundProperties # <<>>
  /\ assertMessage.kind = "was missing expected"
  /\ assertMessage.mismatchedPart /\ assertMessage.foundPart

-----------------------------------------------------------------------------
(* The message flag, the two polarities, and sub-sequences.                 *)

(* C25: a non-empty message given to properties() is in the chain's message *)
(* flag however the call ends (it is stored before validation), and the     *)
(* text of a validation error is the flag's message followed by ': ' and    *)
(* the error's own text, or the error's own text alone when the flag holds  *)
(* no message.                                                              *)
C25_MessageStoredAndPrefixed ==
  Called =>
    /\ message # "" => flags.message = message
    /\ outcome \in ValidationErrors =>
         errorText = (IF flags.message # "" THEN flags.message \o ": " ELSE "")
                       \o ErrorText(outcome)

\* properties(['a'], 'nooo why fail??') on null
C25_Witness ==
  /\ Called
  /\ message = "nooo why fail??"
  /\ flags.message = "nooo why fail??"
  /\ outcome = "NullTargetError"
  /\ errorText = "nooo why fail??: Target cannot be null or undefined."

\* How the call of the other polarity ends on the same target, expected
\* properties, flags and message.
OtherPolarityOutcome(hostThrows) ==
  hasAllProperties([flags EXCEPT !.negate = ~flags.negate],
                   properties, message, hostThrows).outcome

\* This call passes and so does the call of the other polarity.
BothPolaritiesPass(hostThrows) ==
  outcome = "pass" /\ OtherPolarityOutcome(hostThrows) = "pass"

(* C26 as stated: on a target that is not null or undefined, for expected   *)
(* properties whose name types were computed, the call and the call of the  *)
(* other polarity both pass if and only if nothing is expected, whatever    *)
(* the lookup and equality flags are.                                       *)
C26_BothPolaritiesPassIffNothingExpected ==
  (Called /\ ~isNullish(flags.object) /\ ~getNameTypesThrows(properties)) =>
    \A hostThrows \in BOOLEAN : BothPolaritiesPass(hostThrows) <=> ExpectedEntries = 0

(* C26, amended: the same, for flags that can be combined (nested and own   *)
(* not both set); with nested and own both set neither polarity passes,     *)
(* even when nothing is expected.                                           *)
C26_BothPolaritiesPassIffNothingExpectedAndFlagsCompatible ==
  (Called /\ ~isNullish(flags.object) /\ ~getNameTypesThrows(properties)) =>
    \A hostThrows \in BOOLEAN :
      BothPolaritiesPass(hostThrows) <=> (ExpectedEntries = 0 /\ FlagsCompatible)

\* not.properties([]) on an object passes, as properties([]) does
C26_Witness ==
  /\ Asserted /\ flags.negate /\ FlagsCompatible
  /\ ~isNullish(flags.object)
  /\ properties = ArrayOf(<<>>)
  /\ outcome = "pass"
  /\ OtherPolarityOutcome(FALSE) = "pass"

\* The names of p at the positions in S, in their order.
RECURSIVE Restrict(_, _, _)
Restrict(names, S, i) ==
  IF i > Len(names) THEN <<>>
  ELSE (IF i \in S THEN <<names[i]>> ELSE <<>>) \o Restrict(names, S, i + 1)

\* Every sub-sequence of the expected names.
SubSequences(names) == {Restrict(names, S, 1) : S \in SUBSET (1..Len(names))}

(* C27: if a call given a sequence of names passes, negated or not, then    *)
(* the call given any sub-sequence of those names passes on the same        *)
(* target and flags (with the same host: a call that passed with a number   *)
(* or symbol name was answered by the resolver).                            *)
C27_PassingIsMonotoneInTheNames ==
  (Called /\ properties.kind = "array" /\ outcome = "pass") =>
    \A sub \in SubSequences(properties.names) :
      hasAllProperties(flags, ArrayOf(sub), message, FALSE).outcome = "pass"

\* properties(['a', 'b']) passes on a target with a and an inherited b
C27_Witness ==
  /\ Asserted /\ ~flags.negate
  /\ properties = ArrayOf(<<StringName("a"), StringName("b")>>)
  /\ outcome = "pass"

====
